---- MODULE Spec2Model ----
(***************************************************************************)
(* url-sync-flat: a flat key/value state kept in the query of the page     *)
(* address (location.search in browser mode, the query inside              *)
(* location.hash in hash mode), with debounced writes.                     *)
(*                                                                         *)
(* Strings are sequences of one-character strings, so that prefixes,       *)
(* the form encoding of the query and the decoding of values are computed  *)
(* character by character, as the program computes them.                   *)
(***************************************************************************)
EXTENDS Integers, Sequences, FiniteSets, TLC

VARIABLES
  opts,        \* this.opts: prefix, fields, replaceState, debounceMs, routerType
  location,    \* window.location: pathname, search ("" or "?..."), hash ("" or "#...")
  histLen,     \* window.history.length
  timer,       \* this.timer: 0 for null, else the id of the last timer set
  timers,      \* the platform's live timeouts: records [id, due, state]
  nextId,      \* the id the next window.setTimeout returns
  now,         \* the platform clock
  calls,       \* per timer id: what became of the schedule call that made it
  inputs,      \* what comes from outside: the states and defaults the caller passes, the
               \* addresses navigations lead to, the values another writer sets
  last,        \* the last operation: its name, argument, the query before it, its result
  hasWindow,   \* typeof window !== 'undefined'
  given,       \* the options object the constructor was given
  changeHandler, \* this.changeHandler: 0 for undefined, else the handler of the last attach
  listeners,   \* the event listeners registered on window, in order: records [type, h]
  handlers     \* per attach call: what became of the detach function it returned

envVars == <<hasWindow, given>>

listenVars == <<changeHandler, listeners, handlers>>

vars == <<opts, location, histLen, timer, timers, nextId, now, calls, inputs, last,
          hasWindow, given, changeHandler, listeners, handlers>>

(***************************************************************************)
(* Bounds of the model.                                                    *)
(***************************************************************************)
MaxTime == 3       \* the clock stops advancing here
MaxSched == 2      \* schedule calls per run
MaxHist == 2       \* history entries
MaxAttach == 2     \* attachPopstateListener calls per run
MaxText == 3       \* length of the texts handed to the decoder

(***************************************************************************)
(* Strings.                                                                *)
(***************************************************************************)
StartsWith(s, p) == Len(p) <= Len(s) /\ SubSeq(s, 1, Len(p)) = p

Slice(s, n) == SubSeq(s, n + 1, Len(s))

\* s.indexOf(c), 0-based, -1 when c does not occur
IndexOf(s, c) ==
  IF \E i \in 1..Len(s) : s[i] = c
  THEN (CHOOSE i \in 1..Len(s) : s[i] = c /\ \A j \in 1..(i - 1) : s[j] # c) - 1
  ELSE -1

DigitChars == <<"0", "1", "2", "3", "4", "5", "6", "7", "8", "9">>

IsDigit(c) == \E i \in 1..10 : DigitChars[i] = c

DigitVal(c) == (CHOOSE i \in 1..10 : DigitChars[i] = c) - 1

RECURSIVE NatOfDigits(_)
NatOfDigits(s) ==
  IF s = <<>> THEN 0 ELSE 10 * NatOfDigits(SubSeq(s, 1, Len(s) - 1)) + DigitVal(s[Len(s)])

RECURSIVE DigitsOfNat(_)
DigitsOfNat(n) ==
  IF n < 10 THEN <<DigitChars[n + 1]>> ELSE DigitsOfNat(n \div 10) \o <<DigitChars[(n % 10) + 1]>>

RECURSIVE Zeros(_)
Zeros(n) == IF n <= 0 THEN <<>> ELSE <<"0">> \o Zeros(n - 1)

(***************************************************************************)
(* Primitive values: string | number | boolean | undefined.                *)
(* A finite number is m * 10^(-e) with m not divisible by 10 (0 is <<0,0>>)*)
(***************************************************************************)
Undefined == [t |-> "undefined", v |-> <<>>]
Null == [t |-> "null", v |-> <<>>]
StrV(s) == [t |-> "string", v |-> s]
BoolV(b) == [t |-> "boolean", v |-> b]
NumV(m, e) == [t |-> "number", v |-> <<"finite", m, e>>]
NaNV == [t |-> "number", v |-> <<"NaN", 0, 0>>]
InfV(sign) == [t |-> "number", v |-> <<"Infinity", sign, 0>>]

RECURSIVE Normalize(_, _)
Normalize(m, e) ==
  IF m = 0 THEN <<0, 0>>
  ELSE IF m % 10 = 0 THEN Normalize(m \div 10, e - 1)
  ELSE <<m, e>>

Abs(n) == IF n < 0 THEN -n ELSE n

\* Number.prototype.toString of a finite number (ECMAScript Number::toString, radix 10)
FiniteToString(m, e) ==
  LET s == DigitsOfNat(Abs(m))
      k == Len(s)
      n == k - e
      sign == IF m < 0 THEN <<"-">> ELSE <<>>
      ex == n - 1
      expo == <<"e">> \o (IF ex < 0 THEN <<"-">> ELSE <<"+">>) \o DigitsOfNat(Abs(ex))
  IN  IF m = 0 THEN <<"0">>
      ELSE sign \o
        (IF k <= n /\ n <= 21 THEN s \o Zeros(n - k)
         ELSE IF 0 < n /\ n <= 21 THEN SubSeq(s, 1, n) \o <<".">> \o SubSeq(s, n + 1, k)
         ELSE IF -6 < n /\ n <= 0 THEN <<"0", ".">> \o Zeros(-n) \o s
         ELSE IF k = 1 THEN s \o expo
         ELSE SubSeq(s, 1, 1) \o <<".">> \o SubSeq(s, 2, k) \o expo)

\* String(val) for a present primitive
JsString(val) ==
  CASE val.t = "string" -> val.v
    [] val.t = "boolean" -> IF val.v THEN <<"t", "r", "u", "e">> ELSE <<"f", "a", "l", "s", "e">>
    [] val.t = "number" ->
         IF val.v[1] = "NaN" THEN <<"N", "a", "N">>
         ELSE IF val.v[1] = "Infinity"
              THEN (IF val.v[2] < 0 THEN <<"-">> ELSE <<>>) \o <<"I", "n", "f", "i", "n", "i", "t", "y">>
              ELSE FiniteToString(val.v[2], val.v[3])
    [] val.t = "undefined" -> <<"u", "n", "d", "e", "f", "i", "n", "e", "d">>
    [] OTHER -> <<"n", "u", "l", "l">>

AllDigits(s) == s # <<>> /\ \A i \in 1..Len(s) : IsDigit(s[i])

\* /^[+-]?\d+(\.\d+)?$/.test(v)
IsNumericText(v) ==
  LET u == IF v # <<>> /\ v[1] \in {"+", "-"} THEN Slice(v, 1) ELSE v
      d == IndexOf(u, ".")
  IN  IF d < 0 THEN AllDigits(u)
      ELSE AllDigits(SubSeq(u, 1, d)) /\ AllDigits(Slice(u, d + 1))

\* Number(v) for a text the pattern accepts
JsNumber(v) ==
  LET neg == v[1] = "-"
      u == IF v[1] \in {"+", "-"} THEN Slice(v, 1) ELSE v
      d == IndexOf(u, ".")
      ip == IF d < 0 THEN u ELSE SubSeq(u, 1, d)
      fp == IF d < 0 THEN <<>> ELSE Slice(u, d + 1)
      mag == NatOfDigits(ip \o fp)
      nz == Normalize(IF neg THEN -mag ELSE mag, Len(fp))
  IN  NumV(nz[1], nz[2])

\* a decoder without the boolean rule
parsePrimitiveNoBool(v) ==
  IF v = Null THEN Undefined
  ELSE IF IsNumericText(v.v) THEN JsNumber(v.v)
  ELSE StrV(v.v)

parsePrimitive(v) ==
  IF v = Null THEN Undefined
  ELSE IF v.v = <<"t", "r", "u", "e">> THEN BoolV(TRUE)
  ELSE IF v.v = <<"f", "a", "l", "s", "e">> THEN BoolV(FALSE)
  ELSE IF IsNumericText(v.v) THEN JsNumber(v.v)
  ELSE StrV(v.v)

keyOf(prefix, k) == IF prefix # <<>> THEN prefix \o k ELSE k

(***************************************************************************)
(* URLSearchParams: an ordered list of entries [k, v]; a key may repeat.   *)
(***************************************************************************)
Entry(k, v) == [k |-> k, v |-> v]

Has(qp, k) == \E i \in 1..Len(qp) : qp[i].k = k

\* get: the value of the first entry named k, or null
Get(qp, k) ==
  IF Has(qp, k)
  THEN StrV(qp[CHOOSE i \in 1..Len(qp) : qp[i].k = k /\ \A j \in 1..(i - 1) : qp[j].k # k].v)
  ELSE Null

RECURSIVE Delete(_, _)
Delete(qp, k) ==
  IF qp = <<>> THEN <<>>
  ELSE IF Head(qp).k = k THEN Delete(Tail(qp), k)
  ELSE <<Head(qp)>> \o Delete(Tail(qp), k)

\* a set that moves the key to the end of the query
SetAtEnd(qp, k, v) == Append(Delete(qp, k), Entry(k, v))

\* set: the first entry named k takes the value and the others are removed; else append
Set(qp, k, v) ==
  IF Has(qp, k)
  THEN LET i == CHOOSE i \in 1..Len(qp) : qp[i].k = k /\ \A j \in 1..(i - 1) : qp[j].k # k
       IN  SubSeq(qp, 1, i - 1) \o <<Entry(k, v)>> \o Delete(SubSeq(qp, i + 1, Len(qp)), k)
  ELSE Append(qp, Entry(k, v))

\* application/x-www-form-urlencoded: the characters of the model that are escaped
PercentCodes ==
  { <<"&", <<"%", "2", "6">> >>, <<"=", <<"%", "3", "D">> >>, <<"+", <<"%", "2", "B">> >>,
    <<"%", <<"%", "2", "5">> >>, <<"?", <<"%", "3", "F">> >>, <<"#", <<"%", "2", "3">> >>,
    <<" ", <<"%", "2", "0">> >> }

EncodeChar(c) ==
  IF c = " " THEN <<"+">>
  ELSE IF \E pc \in PercentCodes : pc[1] = c
       THEN (CHOOSE pc \in PercentCodes : pc[1] = c)[2]
       ELSE <<c>>

RECURSIVE FormEncode(_)
FormEncode(s) == IF s = <<>> THEN <<>> ELSE EncodeChar(Head(s)) \o FormEncode(Tail(s))

RECURSIVE FormDecode(_)
FormDecode(s) ==
  IF s = <<>> THEN <<>>
  ELSE IF Head(s) = "+" THEN <<" ">> \o FormDecode(Tail(s))
  ELSE IF Head(s) = "%" /\ Len(s) >= 3 /\ \E pc \in PercentCodes : pc[2] = SubSeq(s, 1, 3)
       THEN <<(CHOOSE pc \in PercentCodes : pc[2] = SubSeq(s, 1, 3))[1]>> \o FormDecode(Slice(s, 3))
       ELSE <<Head(s)>> \o FormDecode(Tail(s))

\* URLSearchParams.prototype.toString
RECURSIVE toString(_)
toString(qp) ==
  IF qp = <<>> THEN <<>>
  ELSE FormEncode(Head(qp).k) \o <<"=">> \o FormEncode(Head(qp).v)
       \o (IF Len(qp) > 1 THEN <<"&">> \o toString(Tail(qp)) ELSE <<>>)

RECURSIVE SplitOn(_, _)
SplitOn(s, c) ==
  LET i == IndexOf(s, c)
  IN  IF i < 0 THEN <<s>> ELSE <<SubSeq(s, 1, i)>> \o SplitOn(Slice(s, i + 1), c)

RECURSIVE ParsePieces(_)
ParsePieces(ps) ==
  IF ps = <<>> THEN <<>>
  ELSE LET p == Head(ps)
           i == IndexOf(p, "=")
           e == IF i < 0 THEN Entry(FormDecode(p), <<>>)
                ELSE Entry(FormDecode(SubSeq(p, 1, i)), FormDecode(Slice(p, i + 1)))
       IN  (IF p = <<>> THEN <<>> ELSE <<e>>) \o ParsePieces(Tail(ps))

\* new URLSearchParams(text): one leading "?" is dropped, empty pieces are skipped
NewURLSearchParams(text) ==
  LET u == IF text # <<>> /\ text[1] = "?" THEN Slice(text, 1) ELSE text
  IN  ParsePieces(SplitOn(u, "&"))

(***************************************************************************)
(* Flat state objects: ordered lists of entries [k, v], keys unique, in    *)
(* insertion order (the order of Object.keys).                             *)
(***************************************************************************)
NoState == <<[k |-> <<"?">>, v |-> Null]>>   \* the argument undefined (no object)

ObjHas(obj, k) == \E i \in 1..Len(obj) : obj[i].k = k

ObjGet(obj, k) ==
  IF ObjHas(obj, k) THEN obj[CHOOSE i \in 1..Len(obj) : obj[i].k = k].v ELSE Undefined

ObjSet(obj, k, v) ==
  IF ObjHas(obj, k)
  THEN [i \in 1..Len(obj) |-> IF obj[i].k = k THEN Entry(k, v) ELSE obj[i]]
  ELSE Append(obj, Entry(k, v))

ObjKeys(obj) == [i \in 1..Len(obj) |-> obj[i].k]

(***************************************************************************)
(* The address: location and the two query strategies.                     *)
(***************************************************************************)
\* location.href is the URL as committed; search and hash are "" for an empty component
Loc(p, s, h) == [pathname |-> p, search |-> s, hash |-> h, href |-> p \o s \o h]

\* The URL parser on a path-absolute URL: fragment after the first "#", query after
\* the first "?" before it; location.search and location.hash are "" when empty.
ParseUrl(url) ==
  LET hi == IndexOf(url, "#")
      front == IF hi < 0 THEN url ELSE SubSeq(url, 1, hi)
      frag == IF hi < 0 THEN <<>> ELSE Slice(url, hi + 1)
      qi == IndexOf(front, "?")
      path == IF qi < 0 THEN front ELSE SubSeq(front, 1, qi)
      query == IF qi < 0 THEN <<>> ELSE Slice(front, qi + 1)
  IN  [Loc(path,
           IF query = <<>> THEN <<>> ELSE <<"?">> \o query,
           IF frag = <<>> THEN <<>> ELSE <<"#">> \o frag) EXCEPT !.href = url]

\* The fragment without its "#", split at its first "?"
HashBody(loc) == IF StartsWith(loc.hash, <<"#">>) THEN Slice(loc.hash, 1) ELSE loc.hash

HashBase(loc) ==
  LET h == HashBody(loc)
      idx == IndexOf(h, "?")
  IN  IF idx >= 0 THEN SubSeq(h, 1, idx) ELSE h

\* new HashQuery().get(): the query that follows the first "?" of the fragment
HashQueryGet(loc) ==
  LET h == HashBody(loc)
      idx == IndexOf(h, "?")
  IN  NewURLSearchParams(IF idx >= 0 THEN Slice(h, idx + 1) ELSE <<>>)

\* new HashQuery().set(qp, replace): the URL that is committed
HashQuerySet(loc, qp) ==
  LET qs == toString(qp)
      newHash == HashBase(loc) \o (IF qs # <<>> THEN <<"?">> \o qs ELSE <<>>)
  IN  loc.pathname \o loc.search \o <<"#">> \o newHash

readQueryString(routerType, loc) ==
  IF routerType = "browser"
  THEN (IF loc.search # <<>>
        THEN (IF loc.search[1] = "?" THEN Slice(loc.search, 1) ELSE loc.search)
        ELSE <<>>)
  ELSE toString(HashQueryGet(loc))

\* a write that leaves the "?" in place when the query is empty
writeQueryStringMark(routerType, qp, loc) ==
  IF routerType = "browser"
  THEN ParseUrl(loc.pathname \o <<"?">> \o toString(qp) \o loc.hash)
  ELSE ParseUrl(HashQuerySet(loc, qp))

\* a write that takes every engine for a browser-mode engine
writeQueryStringPlain(routerType, qp, loc) ==
  ParseUrl(loc.pathname
           \o (IF toString(qp) # <<>> THEN <<"?">> \o toString(qp) ELSE <<>>)
           \o loc.hash)

\* writeQueryString: the location after the history call
writeQueryString(routerType, qp, loc) ==
  IF routerType = "browser"
  THEN ParseUrl(loc.pathname
                \o (IF toString(qp) # <<>> THEN <<"?">> \o toString(qp) ELSE <<>>)
                \o loc.hash)
  ELSE ParseUrl(HashQuerySet(loc, qp))

\* a write that replaces the current entry under either policy
HistoryAlwaysReplace(n, replace) == n

\* history.replaceState keeps the number of entries, history.pushState adds one
HistoryAfter(n, replace) == IF replace THEN n ELSE n + 1

\* The query the engine sees now
CurrentQuery(o, loc) == NewURLSearchParams(readQueryString(o.routerType, loc))

(***************************************************************************)
(* The projector: readInitialState and serializeStateToUrl.                *)
(***************************************************************************)
\* a lookup that tries the bare key first
LookupBareFirst(qp, prefix, f) ==
  IF Get(qp, f) # Null THEN Get(qp, f) ELSE Get(qp, keyOf(prefix, f))

\* qp.get(keyOf(prefix, f)) ?? qp.get(f)
LookupField(qp, prefix, f) ==
  IF Get(qp, keyOf(prefix, f)) # Null THEN Get(qp, keyOf(prefix, f)) ELSE Get(qp, f)

RECURSIVE ReadFields(_, _, _, _)
ReadFields(qp, prefix, fs, result) ==
  IF fs = <<>> THEN result
  ELSE LET parsed == parsePrimitive(LookupField(qp, prefix, Head(fs)))
       IN  ReadFields(qp, prefix, Tail(fs),
                      IF parsed # Undefined THEN ObjSet(result, Head(fs), parsed) ELSE result)

\* a wildcard read that keeps the prefix
WildcardNameKeep(prefix, key) == key

\* the name a query key gets in wildcard mode
WildcardName(prefix, key) ==
  IF prefix # <<>> /\ StartsWith(key, prefix) THEN Slice(key, Len(prefix)) ELSE key

RECURSIVE ReadAll(_, _, _)
ReadAll(qp, prefix, result) ==
  IF qp = <<>> THEN result
  ELSE ReadAll(Tail(qp), prefix,
               ObjSet(result, WildcardName(prefix, Head(qp).k), parsePrimitive(StrV(Head(qp).v))))

readInitialState(o, loc, defaults) ==
  LET qp == CurrentQuery(o, loc)
  IN  IF Len(o.fields) > 0
      THEN ReadFields(qp, o.prefix, o.fields, defaults)
      ELSE ReadAll(qp, o.prefix, defaults)

\* val === undefined || val === '' (allow-list loop); val == undefined || val === '' (wildcard loop)
IsAbsent(val, loose) == val = Undefined \/ val = StrV(<<>>) \/ (loose /\ val = Null)

\* a loop body that leaves the keys of an undefined value alone
SetOrDeleteSkipUndefined(qp, prefix, f, val, loose) ==
  IF val = Undefined \/ (loose /\ val = Null) THEN qp
  ELSE IF val = StrV(<<>>) THEN Delete(Delete(qp, keyOf(prefix, f)), f)
  ELSE Set(qp, keyOf(prefix, f), JsString(val))

\* a loop body that takes every falsy value for absent: if (!val)
SetOrDeleteFalsy(qp, prefix, f, val, loose) ==
  IF val \in {Undefined, Null, StrV(<<>>), NumV(0, 0), NaNV, BoolV(FALSE)}
  THEN Delete(Delete(qp, keyOf(prefix, f)), f)
  ELSE Set(qp, keyOf(prefix, f), JsString(val))

\* the body of the forEach of serializeStateToUrl, for one field
SetOrDelete(qp, prefix, f, val, loose) ==
  IF IsAbsent(val, loose)
  THEN Delete(Delete(qp, keyOf(prefix, f)), f)
  ELSE Set(qp, keyOf(prefix, f), JsString(val))

\* state ? state[f] : undefined
StateValue(state, f) == IF state = NoState THEN Undefined ELSE ObjGet(state, f)

\* the fields serializeStateToUrl goes through, in order
ManagedFields(o, state) ==
  IF Len(o.fields) > 0 THEN o.fields
  ELSE IF state # NoState THEN ObjKeys(state)
  ELSE <<>>

RECURSIVE SerializeFields(_, _, _, _, _)
SerializeFields(qp, prefix, fs, state, loose) ==
  IF fs = <<>> THEN qp
  ELSE SerializeFields(SetOrDelete(qp, prefix, Head(fs), StateValue(state, Head(fs)), loose),
                       prefix, Tail(fs), state, loose)

\* the query after each field of the loop: element i + 1 is the query after field i
RECURSIVE SerializeSteps(_, _, _, _, _)
SerializeSteps(qp, prefix, fs, state, loose) ==
  IF fs = <<>> THEN <<qp>>
  ELSE <<qp>> \o SerializeSteps(SetOrDelete(qp, prefix, Head(fs), StateValue(state, Head(fs)), loose),
                               prefix, Tail(fs), state, loose)

\* a write that starts from an empty URLSearchParams
SerializedQueryFresh(o, loc, state) ==
  SerializeFields(<<>>, o.prefix, ManagedFields(o, state), state, Len(o.fields) = 0)

\* the query serializeStateToUrl hands to writeQueryString
SerializedQuery(o, loc, state) ==
  SerializeFields(CurrentQuery(o, loc), o.prefix, ManagedFields(o, state), state,
                  Len(o.fields) = 0)

\* the location after serializeStateToUrl(state)
serializeStateToUrl(o, loc, state) ==
  writeQueryString(o.routerType, SerializedQuery(o, loc, state), loc)

(***************************************************************************)
(* The write scheduler: schedule, flush, cancel and the platform's timers. *)
(***************************************************************************)
\* window.clearTimeout(id)
clearTimeout(ts, id) == {t \in ts : t.id # id}

\* a setTimeout that ignores the delay
setTimeoutNoDelay(ts, id, state, t, delay) == ts \cup {[id |-> id, due |-> t, state |-> state]}

\* window.setTimeout(callback, delay): the timer is due no earlier than now + delay
setTimeout(ts, id, state, t, delay) == ts \cup {[id |-> id, due |-> t + delay, state |-> state]}

\* a schedule, flush or cancel that leaves the old timer running
KeepTimers(ts, t) == ts

\* schedule: if (this.timer) window.clearTimeout(this.timer)
ScheduleClear(ts, t) == IF t # 0 THEN clearTimeout(ts, t) ELSE ts

\* flush: if (this.timer) { window.clearTimeout(this.timer); this.timer = null }
FlushClear(ts, t) == IF t # 0 THEN clearTimeout(ts, t) ELSE ts

\* cancel: if (this.timer) { window.clearTimeout(this.timer); this.timer = null }
CancelClear(ts, t) == IF t # 0 THEN clearTimeout(ts, t) ELSE ts

(***************************************************************************)
(* The navigation listener: attachPopstateListener and detachPopstate.     *)
(***************************************************************************)
\* an engine that listens to popstate in either mode
EventTypePopstate(o) == "popstate"

\* the event the engine listens to
EventType(o) == IF o.routerType = "browser" THEN "popstate" ELSE "hashchange"

\* an attach that puts the new listener in the place of the ones there are
addEventListenerReplacing(ls, type, h) == <<[type |-> type, h |-> h]>>

\* window.addEventListener(type, h): a listener already in the list is not added again
addEventListener(ls, type, h) ==
  IF \E i \in 1..Len(ls) : ls[i] = [type |-> type, h |-> h]
  THEN ls
  ELSE Append(ls, [type |-> type, h |-> h])

\* a removeEventListener that removes nothing
removeNothing(ls, type, h) == ls

\* a removal that takes every listener of the type with it
removeAllOfType(ls, type, h) == SelectSeq(ls, LAMBDA l : l.type # type)

\* window.removeEventListener(type, h)
removeEventListener(ls, type, h) ==
  SelectSeq(ls, LAMBDA l : ~(l.type = type /\ l.h = h))

\* a handler that reads every key of the query
handlerAllKeys(o, loc) == readInitialState([o EXCEPT !.fields = <<>>], loc, <<>>)

\* handler: const next = this.readInitialState(); onChange(next)
handler(o, loc) == readInitialState(o, loc, <<>>)

\* dispatchEvent(type) at loc: the listeners of the type run in the order they were added
Invocations(ls, type, o, loc) ==
  LET sel == SelectSeq(ls, LAMBDA l : l.type = type)
  IN  [i \in 1..Len(sel) |-> [h |-> sel[i].h, next |-> handler(o, loc)]]

\* a constructor that takes the options as given, browser mode when no routerType is given
ConstructBrowser(o) ==
  [k \in {"prefix", "fields", "replaceState", "debounceMs", "routerType"} |->
     IF k \in DOMAIN o THEN o[k]
     ELSE IF k = "routerType" THEN "browser"
     ELSE IF k = "prefix" \/ k = "fields" THEN <<>>
     ELSE IF k = "replaceState" THEN TRUE ELSE 200]

(***************************************************************************)
(* Inputs of the model.                                                    *)
(***************************************************************************)
kA == <<"a">>
kPA == <<"p", "a">>
kK == <<"k">>
kP == <<"p">>
kO == <<"o">>
sX == <<"x">>
s1 == <<"1">>
s2 == <<"2">>
sTrue == <<"t", "r", "u", "e">>

DEFAULTS ==
  [prefix |-> <<>>, fields |-> <<>>, replaceState |-> TRUE, debounceMs |-> 200,
   routerType |-> "hash"]

\* constructor: this.opts = { ...DEFAULTS, ...(opts || {}) }
Construct(o) == [k \in DOMAIN DEFAULTS |-> IF k \in DOMAIN o THEN o[k] ELSE DEFAULTS[k]]

Prefixes == {<<>>, kP}
FieldLists == {<<>>, <<kA>>, <<kA, kPA>>, <<kPA, kA>>}

\* the queries the address starts with, as entry lists
InitQueries ==
  { <<>>,
    <<Entry(kK, s1)>>,
    <<Entry(kPA, s1), Entry(kA, s2)>>,
    <<Entry(kA, s2), Entry(kPA, s1), Entry(kK, sTrue)>>,
    <<Entry(kA, s1), Entry(kA, sX), Entry(kK, <<"a", "&", "b">>)>>,
    <<Entry(kP \o kPA, sX), Entry(kP, s1)>>,
    <<Entry(kA, <<>>)>> }

\* query texts that are not in the form URLSearchParams writes
RawQueryTexts == { <<"k", "&", "&", "a", "=", "1", "=", "2">>, <<"?", "k", "=", "+">> }

InitQueryTexts == {toString(q) : q \in InitQueries} \cup RawQueryTexts

\* the address for a query text: the query is where the engine's mode looks for it
InitLocation(rt, q) ==
  IF rt = "browser"
  THEN Loc(<<"/">>, IF q = <<>> THEN <<>> ELSE <<"?">> \o q, <<"#", "/", "b", "?", "h", "=", "1">>)
  ELSE Loc(<<"/">>, <<"?", "s", "=", "1">>, <<"#", "/", "b">> \o (IF q = <<>> THEN <<>> ELSE <<"?">> \o q))

\* the values a field of a state takes
ProjValues ==
  { Undefined, StrV(<<>>), StrV(sX), StrV(sTrue), StrV(<<"0", "7">>), StrV(<<"a", "&", "b", "=", " ", "+">>),
    NumV(0, 0), NumV(15, 1), NumV(-42, 0), NumV(1, -21), NaNV, BoolV(FALSE), BoolV(TRUE) }

PairValues == { Undefined, StrV(<<>>), StrV(sX), NumV(0, 0), BoolV(FALSE) }

ProjStates ==
  {NoState, <<>>}
  \cup {<<Entry(k, v)>> : k \in {kA, kPA}, v \in ProjValues}
  \cup {<<Entry(kA, v), Entry(kPA, w)>> : v \in PairValues, w \in PairValues}
  \cup {<<Entry(kPA, v), Entry(kA, w)>> : v \in PairValues, w \in PairValues}

ProjDefaults ==
  { <<>>, <<Entry(kA, NumV(5, 0))>>, <<Entry(<<"z">>, NumV(1, 0)), Entry(kPA, StrV(<<"d">>))>> }

SchedStates ==
  { <<Entry(kA, NumV(1, 0)), Entry(kK, StrV(sX))>>,
    <<Entry(kA, Undefined)>> }

\* what became of a schedule call: its snapshot, when it was made (while pending), how it
\* ended, how many writes its timer made, whether one came before the delay elapsed, and
\* what happened to the address while it was pending ("nav": a navigation event delivered
\* to a listener of the engine, "other": a write by somebody else)
NoCall == [state |-> NoState, at |-> 0, end |-> "none", writes |-> 0, early |-> FALSE,
           during |-> {}]

\* the addresses of the address model: paths, plain queries and fragments with and
\* without a query of their own
AddrLocations ==
  { Loc(p, s, h) :
      p \in { <<"/">>, <<"/", "d">> },
      s \in { <<>>, <<"?">> \o toString(<<Entry(kK, s1)>>),
              <<"?">> \o toString(<<Entry(kA, s2), Entry(kPA, sX)>>) },
      h \in { <<>>, <<"#", "/", "b">>, <<"#", "/", "b", "?">>,
              <<"#", "?">> \o toString(<<Entry(kA, s1)>>),
              <<"#", "/", "b", "?">> \o toString(<<Entry(kK, s1), Entry(kPA, s2)>>) } }

AddrStates ==
  { NoState, <<>>, <<Entry(kA, NumV(1, 0)), Entry(kK, StrV(sX))>>, <<Entry(kA, Undefined)>>,
    <<Entry(kA, StrV(<<>>)), Entry(kK, Undefined)>> }

\* the texts the decoder is given: every text of signs, digits, points and letters up to
\* MaxText characters, the two boolean words, and null for a key that is not there
DecodeTexts ==
  UNION {[1..n -> {"+", "-", ".", "0", "1", "5", "e"}] : n \in 0..MaxText}

DecodeInputs ==
  {Null, StrV(sTrue), StrV(<<"f", "a", "l", "s", "e">>)} \cup {StrV(t) : t \in DecodeTexts}

\* the addresses a navigation leads to
NavQueryTexts ==
  { <<>>, toString(<<Entry(kPA, s1), Entry(kA, s2)>>), toString(<<Entry(kK, sTrue)>>) }

\* option objects as callers pass them to the constructor
GivenOpts ==
  { [prefix |-> kP, fields |-> <<kA>>],
    [prefix |-> kP, fields |-> <<kA>>, routerType |-> "browser"],
    [fields |-> <<>>, routerType |-> "hash"],
    [prefix |-> kP, fields |-> <<kA, kK>>, replaceState |-> TRUE, routerType |-> "browser"] }

\* the engines of the scheduler model
SchedConfigs ==
  { [DEFAULTS EXCEPT !.debounceMs = 2],
    [DEFAULTS EXCEPT !.prefix = kP, !.fields = <<kA>>, !.debounceMs = 1, !.routerType = "browser"],
    [DEFAULTS EXCEPT !.replaceState = FALSE, !.debounceMs = 2, !.routerType = "browser"],
    [DEFAULTS EXCEPT !.prefix = kP, !.fields = <<kA>>, !.replaceState = FALSE, !.debounceMs = 1] }

NoOp == [op |-> "none", prev |-> "none", id |-> 0, state |-> NoState, defaults |-> <<>>,
         loc |-> Loc(<<>>, <<>>, <<>>), hist |-> 0, result |-> <<>>, threw |-> FALSE,
         ref |-> 0]

(***************************************************************************)
(* The state machine.                                                      *)
(***************************************************************************)
InitCommon ==
  /\ histLen = 1
  /\ timer = 0
  /\ timers = {}
  /\ nextId = 1
  /\ now = 0
  /\ calls = [i \in 1..MaxSched |-> NoCall]
  /\ last = NoOp
  /\ changeHandler = 0
  /\ listeners = <<>>
  /\ handlers = [h \in 1..MaxAttach |-> "none"]

\* the address the page is at when the engine is constructed
StartLocation(o) == InitLocation(o.routerType, toString(<<Entry(kK, s1), Entry(kA, sX)>>))

\* one engine, constructed with { ...DEFAULTS, ...opts }
Init ==
  /\ opts \in SchedConfigs
  /\ location = StartLocation(opts)
  /\ inputs = [states |-> SchedStates, defaults |-> {<<>>}, navs |-> {}, others |-> {}]
  /\ hasWindow = TRUE
  /\ given = opts
  /\ InitCommon

\* the engines of the shared-address model
SharedConfigs ==
  { [DEFAULTS EXCEPT !.debounceMs = 2],
    [DEFAULTS EXCEPT !.prefix = kP, !.fields = <<kA>>, !.debounceMs = 1, !.routerType = "browser"] }

\* one engine on an address that another writer changes
InitShared ==
  /\ opts \in SharedConfigs
  /\ location = StartLocation(opts)
  /\ inputs = [states |-> SchedStates, defaults |-> {<<>>}, navs |-> {}, others |-> {s1, s2}]
  /\ hasWindow = TRUE
  /\ given = opts
  /\ InitCommon

\* one engine on an address that navigations change
InitReentrant ==
  /\ opts = [DEFAULTS EXCEPT !.debounceMs = 2]
  /\ location = StartLocation(opts)
  /\ inputs = [states |-> {<<Entry(kA, NumV(1, 0)), Entry(kK, StrV(sX))>>}, defaults |-> {<<>>},
               navs |-> {toString(<<Entry(kPA, s1), Entry(kA, s2)>>)}, others |-> {}]
  /\ hasWindow = TRUE
  /\ given = opts
  /\ InitCommon

\* the projector on its own, on location.search: one state and one defaults object per run
InitProj ==
  /\ opts \in {[DEFAULTS EXCEPT !.prefix = p, !.fields = f, !.routerType = "browser"] :
                 p \in Prefixes, f \in FieldLists}
  /\ location \in {InitLocation(opts.routerType, q) : q \in InitQueryTexts}
  /\ inputs \in {[states |-> {s}, defaults |-> {d}, navs |-> {}, others |-> {}] :
                   s \in ProjStates, d \in ProjDefaults}
  /\ hasWindow = TRUE
  /\ given = opts
  /\ InitCommon

\* a write adds a history entry under pushState: room for it and for the pending write
HasRoom(pending) == opts.replaceState \/ histLen + pending <= MaxHist

\* a view of the address taken once, when the engine was constructed
WriteViewAtConstruction(o, loc) == StartLocation(o)

\* the address serializeStateToUrl starts from: window.location as it is at the call
WriteView(o, loc) == loc

\* a write that does not look for the window first
WriteUnguarded(state) ==
  /\ location' = serializeStateToUrl(opts, location, state)
  /\ histLen' = HistoryAfter(histLen, opts.replaceState)

\* the reference the caller holds to the defaults object it passes to readInitialState
DefaultsRef == 1

\* serializeStateToUrl as a step: nothing without a window, else one history call
Write(state) ==
  IF hasWindow
  THEN /\ location' = serializeStateToUrl(opts, WriteView(opts, location), state)
       /\ histLen' = HistoryAfter(histLen, opts.replaceState)
  ELSE UNCHANGED <<location, histLen>>

\* the pending calls, marked with what happened to the address meanwhile
MarkPending(what) ==
  [i \in 1..MaxSched |->
     IF calls[i].end = "pending" THEN [calls[i] EXCEPT !.during = @ \cup {what}]
     ELSE calls[i]]

\* where a call of schedule, flush or cancel comes from: the callback of a listener that
\* a navigation event has just run, the code that follows a timer's write, or elsewhere
Context ==
  IF last.op \in {"popstate", "hashchange"} /\ Len(last.result) > 0 THEN "callback"
  ELSE IF last.op = "timer" THEN "timer"
  ELSE "none"

EndPending(how) ==
  [i \in 1..MaxSched |->
     IF calls[i].end = "pending" THEN [calls[i] EXCEPT !.end = how, !.at = 0] ELSE calls[i]]

\* a read that fills in the object it was given and returns it
ReadObjectsInPlace(o, loc, d, has) ==
  LET r == IF has THEN readInitialState(o, loc, d) ELSE d
  IN  [defaults |-> r, result |-> r, ref |-> DefaultsRef]

\* the objects of one readInitialState call: the caller's defaults, which the call only
\* spreads, and the object returned: { ...defaults } with the decoded values assigned, a
\* new object on both returns
ReadObjects(o, loc, d, has) ==
  [defaults |-> d,
   result |-> IF has THEN readInitialState(o, loc, d) ELSE d,
   ref |-> DefaultsRef + 1]

ReadInitialState ==
  \E d \in inputs.defaults :
    /\ last' = [last EXCEPT !.op = "read", !.prev = last.op,
                            !.defaults = ReadObjects(opts, location, d, hasWindow).defaults,
                            !.result = ReadObjects(opts, location, d, hasWindow).result,
                            !.ref = ReadObjects(opts, location, d, hasWindow).ref]
    /\ UNCHANGED <<opts, location, histLen, timer, timers, nextId, now, calls, inputs>>
    /\ UNCHANGED <<envVars, listenVars>>

SerializeStateToUrl ==
  \E s \in inputs.states :
    /\ hasWindow => HasRoom(Cardinality(timers) + 1)
    /\ Write(s)
    /\ last' = [NoOp EXCEPT !.op = "serialize", !.state = s, !.loc = location,
                            !.hist = histLen]
    /\ UNCHANGED <<opts, timer, timers, nextId, now, calls, inputs>>
    /\ UNCHANGED <<envVars, listenVars>>

Schedule ==
  \E s \in inputs.states :
    /\ IF hasWindow
       THEN /\ nextId <= MaxSched
            /\ now + opts.debounceMs <= MaxTime
            /\ HasRoom(1)
            /\ timers' = setTimeout(ScheduleClear(timers, timer), nextId, s, now,
                                    opts.debounceMs)
            /\ timer' = nextId
            /\ nextId' = nextId + 1
            /\ calls' = [EndPending("schedule") EXCEPT
                           ![nextId] = [NoCall EXCEPT !.state = s, !.at = now,
                                                      !.end = "pending"]]
       ELSE UNCHANGED <<timers, timer, nextId, calls>>
    /\ last' = [NoOp EXCEPT !.op = "schedule", !.id = IF hasWindow THEN nextId ELSE 0,
                            !.prev = Context,
                            !.state = s, !.loc = location, !.hist = histLen]
    /\ UNCHANGED <<opts, location, histLen, now, inputs>>
    /\ UNCHANGED <<envVars, listenVars>>

Flush ==
  \E s \in inputs.states :
    /\ IF hasWindow
       THEN /\ HasRoom(Cardinality(FlushClear(timers, timer)) + 1)
            /\ timers' = FlushClear(timers, timer)
            /\ timer' = 0
            /\ calls' = EndPending("flush")
       ELSE UNCHANGED <<timers, timer, calls>>
    /\ Write(s)
    /\ last' = [NoOp EXCEPT !.op = "flush", !.id = timer, !.state = s, !.prev = Context,
                            !.loc = location, !.hist = histLen]
    /\ UNCHANGED <<opts, nextId, now, inputs>>
    /\ UNCHANGED <<envVars, listenVars>>

Cancel ==
  /\ timers' = CancelClear(timers, timer)
  /\ timer' = 0
  /\ calls' = EndPending("cancel")
  /\ last' = [NoOp EXCEPT !.op = "cancel", !.id = timer, !.loc = location,
                          !.prev = Context,
                          !.hist = histLen, !.threw = ~hasWindow /\ timer # 0]
  /\ UNCHANGED <<opts, location, histLen, nextId, now, inputs>>
  /\ UNCHANGED <<envVars, listenVars>>

\* the callback of schedule: this.serializeStateToUrl(state); this.timer = null
TimerExpire ==
  \E t \in timers :
    /\ t.due <= now
    /\ timers' = timers \ {t}
    /\ Write(t.state)
    /\ timer' = 0
    /\ calls' = [calls EXCEPT ![t.id] =
                   [@ EXCEPT !.writes = @ + 1, !.at = 0,
                             !.early = @ \/ now < calls[t.id].at + opts.debounceMs,
                             !.end = IF @ = "pending" THEN "fired" ELSE @]]
    /\ last' = [NoOp EXCEPT !.op = "timer", !.id = t.id, !.state = t.state,
                            !.loc = location, !.hist = histLen]
    /\ UNCHANGED <<opts, nextId, now, inputs>>
    /\ UNCHANGED <<envVars, listenVars>>

Tick ==
  /\ now < MaxTime
  /\ now' = now + 1
  /\ UNCHANGED <<opts, location, histLen, timer, timers, nextId, calls, inputs, last>>
  /\ UNCHANGED <<envVars, listenVars>>

\* the handler the next attachPopstateListener call creates
NextHandler == CHOOSE h \in 1..MaxAttach : handlers[h] = "none" /\ \A j \in 1..(h - 1) : handlers[j] # "none"

AttachPopstateListener ==
  /\ \E h \in 1..MaxAttach : handlers[h] = "none"
  /\ IF hasWindow
     THEN /\ listeners' = addEventListener(listeners, EventType(opts), NextHandler)
          /\ changeHandler' = NextHandler
          /\ handlers' = [handlers EXCEPT ![NextHandler] = "bound"]
     ELSE /\ handlers' = [handlers EXCEPT ![NextHandler] = "noop"]
          /\ UNCHANGED <<listeners, changeHandler>>
  /\ last' = [NoOp EXCEPT !.op = "attach", !.id = NextHandler, !.loc = location,
                          !.hist = histLen]
  /\ UNCHANGED <<opts, location, histLen, timer, timers, nextId, now, calls, inputs>>
  /\ UNCHANGED envVars

\* a call of the function attachPopstateListener returned
Detach ==
  \E h \in 1..MaxAttach :
    /\ handlers[h] # "none"
    /\ IF handlers[h] = "noop"
       THEN UNCHANGED <<listeners, changeHandler, handlers>>
       ELSE /\ listeners' = removeEventListener(listeners, EventType(opts), h)
            /\ changeHandler' = 0
            /\ handlers' = [handlers EXCEPT ![h] = "detached"]
    /\ last' = [NoOp EXCEPT !.op = "detach", !.id = h, !.loc = location, !.hist = histLen]
    /\ UNCHANGED <<opts, location, histLen, timer, timers, nextId, now, calls, inputs>>
    /\ UNCHANGED envVars

DetachPopstate ==
  /\ IF changeHandler = 0
     THEN UNCHANGED <<listeners, changeHandler, handlers>>
     ELSE /\ listeners' = removeEventListener(listeners, EventType(opts), changeHandler)
          /\ changeHandler' = 0
          /\ handlers' = [handlers EXCEPT ![changeHandler] = "dropped"]
  /\ last' = [NoOp EXCEPT !.op = "detachPopstate", !.id = changeHandler, !.loc = location,
                          !.hist = histLen, !.threw = ~hasWindow /\ changeHandler # 0]
  /\ UNCHANGED <<opts, location, histLen, timer, timers, nextId, now, calls, inputs>>
  /\ UNCHANGED envVars

\* a navigation: the address changes and the platform dispatches popstate or hashchange
Navigate ==
  \E type \in {"popstate", "hashchange"}, q \in inputs.navs :
    LET loc == InitLocation(opts.routerType, q)
    IN  /\ hasWindow
        /\ location' = loc
        /\ last' = [NoOp EXCEPT !.op = type, !.prev = last.op, !.loc = location,
                                !.hist = histLen,
                                !.result = Invocations(listeners, type, opts, loc)]
        /\ calls' = IF Invocations(listeners, type, opts, loc) # <<>>
                    THEN MarkPending("nav") ELSE calls
        /\ UNCHANGED <<opts, histLen, timer, timers, nextId, now, inputs>>
        /\ UNCHANGED <<envVars, listenVars>>

\* another writer (the page, or a second engine) sets a key of its own in the query,
\* in place
OtherWrite ==
  \E v \in inputs.others :
    /\ hasWindow
    /\ location' = writeQueryString(opts.routerType,
                                    Set(CurrentQuery(opts, location), kO, v), location)
    /\ calls' = MarkPending("other")
    /\ last' = [NoOp EXCEPT !.op = "other", !.loc = location, !.hist = histLen]
    /\ UNCHANGED <<opts, histLen, timer, timers, nextId, now, inputs>>
    /\ UNCHANGED <<envVars, listenVars>>

\* the values the caller assigns to a field of a state object it has passed to schedule
MutatedValues == {NumV(2, 0), Undefined}

\* The closure schedule hands to setTimeout holds the caller's state object itself, not a
\* copy: the state of a timer is what that object holds now. The caller assigns to a
\* field of the object while the write is pending.
MutateState ==
  \E t \in timers, v \in MutatedValues :
    /\ t.id = timer
    /\ t.state # NoState
    /\ ObjSet(t.state, kA, v) # t.state
    /\ timers' = (timers \ {t}) \cup {[t EXCEPT !.state = ObjSet(t.state, kA, v)]}
    /\ calls' = MarkPending("mutated")
    /\ last' = [NoOp EXCEPT !.op = "mutate", !.id = t.id, !.state = ObjSet(t.state, kA, v),
                            !.loc = location, !.hist = histLen]
    /\ UNCHANGED <<opts, location, histLen, timer, nextId, now, inputs>>
    /\ UNCHANGED <<envVars, listenVars>>

\* the write scheduler and the platform's timers
Next ==
  \/ Schedule
  \/ Flush
  \/ Cancel
  \/ TimerExpire
  \/ Tick

Spec == Init /\ [][Next]_vars

\* a timer is due: the callback of schedule can run
TimerDue == \E t \in timers : t.due <= now

\* The clock advances and the platform runs a timer that stays due: weak fairness of Tick
\* and of TimerExpire. TimerExpire removes a timer, so <<TimerExpire>>_vars is enabled
\* exactly when TimerDue holds, and WF_vars(TimerExpire) is written out with it.
FairSpec ==
  /\ Init
  /\ [][Next]_vars
  /\ WF_vars(Tick)
  /\ ([]<>(~TimerDue) \/ []<><<TimerExpire>>_vars)

\* debounced writes on an address that another writer changes
NextShared ==
  \/ Schedule
  \/ TimerExpire
  \/ Tick
  \/ OtherWrite

SpecShared == InitShared /\ [][NextShared]_vars

\* one engine with an allow-list, read while a write is pending and a listener attached
InitFrame ==
  /\ opts = [DEFAULTS EXCEPT !.prefix = kP, !.fields = <<kA>>, !.debounceMs = 1,
                             !.routerType = "browser"]
  /\ location = StartLocation(opts)
  /\ inputs = [states |-> SchedStates, defaults |-> {<<Entry(kA, NumV(5, 0))>>},
               navs |-> {}, others |-> {}]
  /\ hasWindow = TRUE
  /\ given = opts
  /\ InitCommon

NextFrame ==
  \/ ReadInitialState
  \/ Schedule
  \/ TimerExpire
  \/ Tick
  \/ AttachPopstateListener

SpecFrame == InitFrame /\ [][NextFrame]_vars

\* debounced writes of state objects the caller goes on changing
NextMutate ==
  \/ Schedule
  \/ MutateState
  \/ TimerExpire
  \/ Tick

SpecMutate == Init /\ [][NextMutate]_vars

\* the scheduler of an engine with listeners attached, on an address navigations change:
\* a call of schedule, flush or cancel that follows an event is one made by the callback
NextReentrant ==
  \/ Schedule
  \/ Flush
  \/ Cancel
  \/ TimerExpire
  \/ Tick
  \/ AttachPopstateListener
  \/ Navigate

SpecReentrant == InitReentrant /\ [][NextReentrant]_vars

\* the projector, called directly
NextProj ==
  \/ ReadInitialState
  \/ SerializeStateToUrl

SpecProj == InitProj /\ [][NextProj]_vars

\* writes and reads on addresses of every shape, in both modes and under both policies
InitAddr ==
  /\ opts \in {[DEFAULTS EXCEPT !.prefix = p, !.fields = f, !.replaceState = r,
                                !.routerType = rt] :
                 p \in Prefixes, f \in {<<>>, <<kA>>}, r \in BOOLEAN,
                 rt \in {"browser", "hash"}}
  /\ location \in AddrLocations
  /\ inputs \in {[states |-> {s}, defaults |-> {<<>>}, navs |-> {}, others |-> {}] :
                   s \in AddrStates}
  /\ hasWindow = TRUE
  /\ given = opts
  /\ InitCommon

SpecAddr == InitAddr /\ [][NextProj]_vars

\* an engine where no window exists (a server-side render): there is no address
InitNoWindow ==
  /\ opts \in SchedConfigs
  /\ location = Loc(<<>>, <<>>, <<>>)
  /\ inputs = [states |-> SchedStates, defaults |-> ProjDefaults, navs |-> {}, others |-> {}]
  /\ hasWindow = FALSE
  /\ given = opts
  /\ InitCommon

NextNoWindow ==
  \/ ReadInitialState
  \/ SerializeStateToUrl
  \/ Schedule
  \/ Flush
  \/ Cancel
  \/ AttachPopstateListener
  \/ Detach
  \/ DetachPopstate
  \/ Tick

SpecNoWindow == InitNoWindow /\ [][NextNoWindow]_vars

\* the decoder on its own: parsePrimitive applied to one query value after another
ParsePrimitive ==
  \E v \in DecodeInputs :
    /\ last' = [NoOp EXCEPT !.op = "parse", !.state = <<Entry(<<"v">>, v)>>,
                            !.result = <<Entry(<<"v">>, parsePrimitive(v))>>]
    /\ UNCHANGED <<opts, location, histLen, timer, timers, nextId, now, calls, inputs>>
    /\ UNCHANGED <<envVars, listenVars>>

InitDecode ==
  /\ opts = DEFAULTS
  /\ location = Loc(<<"/">>, <<>>, <<>>)
  /\ inputs = [states |-> {<<>>}, defaults |-> {<<>>}, navs |-> {}, others |-> {}]
  /\ hasWindow = TRUE
  /\ given = opts
  /\ InitCommon

SpecDecode == InitDecode /\ [][ParsePrimitive]_vars

\* the navigation listener: an engine built from the options given, on an address that
\* holds a query in location.search and another in location.hash
InitListen ==
  /\ given \in GivenOpts
  /\ opts = Construct(given)
  /\ location = Loc(<<"/">>, <<"?">> \o toString(<<Entry(kPA, s2), Entry(kK, s1)>>),
                    <<"#", "/", "b", "?">> \o toString(<<Entry(kA, sX)>>))
  /\ inputs = [states |-> SchedStates, defaults |-> {<<>>, <<Entry(kA, NumV(5, 0))>>},
               navs |-> NavQueryTexts, others |-> {}]
  /\ hasWindow = TRUE
  /\ InitCommon

NextListen ==
  \/ AttachPopstateListener
  \/ Detach
  \/ DetachPopstate
  \/ Navigate
  \/ ReadInitialState
  \/ SerializeStateToUrl

SpecListen == InitListen /\ [][NextListen]_vars

(***************************************************************************)
(* Properties of the write scheduler (Spec, FairSpec).                     *)
(***************************************************************************)
Present(v) == v # Undefined /\ v # StrV(<<>>)

\* the query at loc shows state as one write of it leaves it (no two managed fields of the
\* scheduler model share a key)
Reflects(loc, state) ==
  LET q == CurrentQuery(opts, loc)
      fs == ManagedFields(opts, state)
  IN  \A i \in 1..Len(fs) :
        LET v == StateValue(state, fs[i])
        IN  IF Present(v)
            THEN Get(q, keyOf(opts.prefix, fs[i])) = StrV(JsString(v))
            ELSE ~Has(q, keyOf(opts.prefix, fs[i])) /\ ~Has(q, fs[i])

\* the keys no field of state manages are as they were at loc0
OthersKept(loc0, loc, state) ==
  LET q0 == CurrentQuery(opts, loc0)
      q == CurrentQuery(opts, loc)
      fs == ManagedFields(opts, state)
      mine == {fs[i] : i \in 1..Len(fs)} \cup {keyOf(opts.prefix, fs[i]) : i \in 1..Len(fs)}
  IN  /\ \A i \in 1..Len(q0) : q0[i].k \notin mine => Get(q, q0[i].k) = Get(q0, q0[i].k)
      /\ \A i \in 1..Len(q) : q[i].k \notin mine => Has(q0, q[i].k)

C1_Safe ==
  /\ \A i \in 1..MaxSched : ~calls[i].early /\ calls[i].writes <= 1
  /\ \A i \in 1..MaxSched : calls[i].end = "fired" => calls[i].writes = 1
  /\ last.op = "timer" =>
       /\ last.state = calls[last.id].state
       /\ Reflects(location, calls[last.id].state)

\* C1: after schedule(s) no write caused by the call happens before debounceMs has elapsed
\* since the call; when no schedule, flush or cancel comes in between, the timer makes
\* exactly one write, of s, once the delay has elapsed.
C1_DebouncedWrite ==
  /\ []C1_Safe
  /\ \A i \in 1..MaxSched : (calls[i].end = "pending") ~> (calls[i].end # "pending")

C1_Witness ==
  \E i \in 1..MaxSched :
    /\ calls[i].end = "fired" /\ calls[i].writes = 1
    /\ last.op = "timer" /\ last.id = i /\ location # last.loc
    /\ now >= opts.debounceMs

C2_Safe ==
  /\ \A i \in 1..MaxSched : calls[i].end = "schedule" => calls[i].writes = 0
  /\ \A i \in 1..MaxSched : calls[i].writes <= 1
  /\ last.op = "timer" =>
       /\ calls[last.id].end = "fired"
       /\ location = serializeStateToUrl(opts, last.loc, calls[last.id].state)
       /\ Reflects(location, calls[last.id].state)
       /\ OthersKept(last.loc, location, calls[last.id].state)

\* C2: when each schedule call is made while the previous one is pending, the superseded
\* calls never write: the one write is that of the last call, it writes the last snapshot
\* alone, and the keys that snapshot does not manage stay as they were (nothing of an
\* earlier snapshot is merged in).
C2_LastSnapshotOnly ==
  /\ []C2_Safe
  /\ \A i \in 1..(MaxSched - 1) :
       (calls[i].end = "schedule" /\ calls[i + 1].end = "pending")
         ~> (calls[i + 1].end # "pending" /\ calls[i].writes = 0)

C2_Witness ==
  \E i \in 1..(MaxSched - 1) :
    /\ calls[i].end = "schedule" /\ calls[i].writes = 0 /\ Present(ObjGet(calls[i].state, kA))
    /\ calls[i + 1].end = "fired" /\ calls[i + 1].writes = 1
    /\ calls[i].state # calls[i + 1].state
    /\ last.op = "timer" /\ last.id = i + 1

\* C3: flush(C) writes C before it returns and leaves the engine idle, whether or not a
\* write was pending, and a write that was pending at the flush never happens afterwards.
C3_FlushWritesNow ==
  /\ last.op = "flush" =>
       /\ Reflects(location, last.state)
       /\ OthersKept(last.loc, location, last.state)
       /\ timer = 0
       /\ timers = {}
  /\ \A i \in 1..MaxSched : calls[i].end = "flush" => calls[i].writes = 0

C3_Witness ==
  /\ last.op = "flush" /\ last.id # 0
  /\ calls[last.id].end = "flush"
  /\ calls[last.id].state # last.state
  /\ location # last.loc

\* C4: cancel() discards a pending write: the engine is idle afterwards, the timer never
\* fires and the URL is not changed by the cancelled snapshot; cancel() while idle leaves
\* the URL and the engine as they were.
C4_CancelDiscards ==
  /\ last.op = "cancel" =>
       /\ location = last.loc
       /\ timer = 0
       /\ timers = {}
  /\ \A i \in 1..MaxSched : calls[i].end = "cancel" => calls[i].writes = 0

C4_Witness ==
  /\ last.op = "cancel" /\ last.id # 0
  /\ calls[last.id].end = "cancel"
  /\ now = MaxTime

(***************************************************************************)
(* Properties of the projector (SpecProj).                                 *)
(***************************************************************************)
Before == CurrentQuery(opts, last.loc)
After == CurrentQuery(opts, location)

SeqSet(fs) == {fs[i] : i \in 1..Len(fs)}

\* the entries of qp named k, in order
EntriesOf(qp, k) == SelectSeq(qp, LAMBDA e : e.k = k)

\* the keys the fields fs stand for: each field and its prefixed key
KeysOf(fs) == SeqSet(fs) \cup {keyOf(opts.prefix, f) : f \in SeqSet(fs)}

KeptAsWas(k) == Has(After, k) /\ EntriesOf(After, k) = EntriesOf(Before, k)

\* foreign as the claim has it: outside the configured fields, or, with no allow-list,
\* without the configured prefix
ClaimedForeign(k) ==
  IF Len(opts.fields) > 0 THEN k \notin KeysOf(opts.fields) ELSE ~StartsWith(k, opts.prefix)

\* C5 as stated: every foreign key of the query (outside the configured fields, or, in
\* wildcard mode, without the configured prefix) is still there with the same value after
\* serializeStateToUrl.
C5_ForeignKept_AsStated ==
  last.op = "serialize" =>
    \A i \in 1..Len(Before) : ClaimedForeign(Before[i].k) => KeptAsWas(Before[i].k)

\* C5 amended: every key of the query that is neither a managed field nor prefix + a
\* managed field (the configured fields in allow-list mode, the keys of the state in
\* wildcard mode) is still there with the same values after serializeStateToUrl.
C5_UnmanagedKept ==
  last.op = "serialize" =>
    \A i \in 1..Len(Before) :
      Before[i].k \notin KeysOf(ManagedFields(opts, last.state)) => KeptAsWas(Before[i].k)

C5_Witness ==
  /\ last.op = "serialize"
  /\ Len(opts.fields) = 0 /\ opts.prefix # <<>>
  /\ After # Before
  /\ \E i \in 1..Len(Before) :
       /\ Before[i].k \notin KeysOf(ManagedFields(opts, last.state))
       /\ ~StartsWith(Before[i].k, opts.prefix)

ReadAfterWrite == last.op = "read" /\ last.prev = "serialize" /\ last.defaults = <<>>

\* C6 as stated: readInitialState() right after serializeStateToUrl(state) returns, for
\* every configured field, the original value when it is present and no entry when it was
\* absent or ''.
C6_RoundTrip_AsStated ==
  (ReadAfterWrite /\ Len(opts.fields) > 0) =>
    \A f \in SeqSet(opts.fields) :
      LET v == StateValue(last.state, f)
      IN  IF Present(v)
          THEN ObjHas(last.result, f) /\ ObjGet(last.result, f) = v
          ELSE ~ObjHas(last.result, f)

\* f shares none of its two keys with another configured field
OwnKeys(f) ==
  \A g \in SeqSet(opts.fields) \ {f} : KeysOf(<<f>>) \cap KeysOf(<<g>>) = {}

\* a value the decoding gives back as it was: a boolean, a number whose string form is
\* plain decimal text, a string that is neither 'true', 'false' nor numeric text
DecodesToItself(v) ==
  \/ v.t = "boolean"
  \/ v.t = "number" /\ v.v[1] = "finite" /\ IsNumericText(JsString(v))
  \/ v.t = "string" /\ v.v \notin {sTrue, <<"f", "a", "l", "s", "e">>} /\ ~IsNumericText(v.v)

\* C6 amended: readInitialState() right after serializeStateToUrl(state) returns, for every
\* configured field that shares no key with another configured field, the decoding of the
\* string form of its value when that value is present (the original value for a boolean,
\* a plain decimal number and a string that is not 'true', 'false' or numeric text) and no
\* entry when the value was absent or ''.
C6_RoundTripDecoded ==
  (ReadAfterWrite /\ Len(opts.fields) > 0) =>
    \A f \in SeqSet(opts.fields) :
      LET v == StateValue(last.state, f)
      IN  OwnKeys(f) =>
            IF Present(v)
            THEN /\ ObjHas(last.result, f)
                 /\ ObjGet(last.result, f) = parsePrimitive(StrV(JsString(v)))
                 /\ DecodesToItself(v) => ObjGet(last.result, f) = v
            ELSE ~ObjHas(last.result, f)

C6_Witness ==
  /\ ReadAfterWrite /\ Len(opts.fields) > 0 /\ opts.prefix # <<>>
  /\ OwnKeys(kA)
  /\ StateValue(last.state, kA) = NumV(15, 1)
  /\ ObjGet(last.result, kA) = NumV(15, 1)
  /\ Has(Before, kA)

\* C7: serializeStateToUrl goes through the managed fields in order and applies one rule
\* to each: an absent or empty value removes prefix+field and the bare field; any other
\* value, 0 and false included, sets prefix+field (one entry) to the value's string form
\* and leaves the entries of a different bare key as they were. The query written is the
\* outcome of the last step.
C7_SetDeleteRule ==
  last.op = "serialize" =>
    LET fs == ManagedFields(opts, last.state)
        steps == SerializeSteps(Before, opts.prefix, fs, last.state, Len(opts.fields) = 0)
    IN  /\ After = steps[Len(fs) + 1]
        /\ \A i \in 1..Len(fs) :
             LET k == keyOf(opts.prefix, fs[i])
                 v == StateValue(last.state, fs[i])
             IN  IF v = Undefined \/ v = StrV(<<>>)
                 THEN ~Has(steps[i + 1], k) /\ ~Has(steps[i + 1], fs[i])
                 ELSE /\ EntriesOf(steps[i + 1], k) = <<Entry(k, JsString(v))>>
                      /\ v = NumV(0, 0) => Get(steps[i + 1], k) = StrV(<<"0">>)
                      /\ v = BoolV(FALSE) => Get(steps[i + 1], k) = StrV(<<"f", "a", "l", "s", "e">>)
                      /\ k # fs[i] => EntriesOf(steps[i + 1], fs[i]) = EntriesOf(steps[i], fs[i])

C7_Witness ==
  /\ last.op = "serialize" /\ opts.prefix # <<>>
  /\ last.state \in {<<Entry(kA, NumV(0, 0)), Entry(kPA, Undefined)>>,
                     <<Entry(kA, BoolV(FALSE))>>}
  /\ Has(Before, kA)
  /\ Has(After, kA)
  /\ After # Before

\* C8: in allow-list mode readInitialState({defaults}) gives each configured field the
\* decoded value of prefix+field when the query has that key, else the decoded value of the
\* bare field when the query has it, else the default (no entry when there is none).
C8_PrefixedThenBareThenDefault ==
  (last.op = "read" /\ Len(opts.fields) > 0) =>
    LET q == CurrentQuery(opts, location)
    IN  \A f \in SeqSet(opts.fields) :
          IF Has(q, keyOf(opts.prefix, f))
          THEN ObjHas(last.result, f)
               /\ ObjGet(last.result, f) = parsePrimitive(Get(q, keyOf(opts.prefix, f)))
          ELSE IF Has(q, f)
          THEN ObjHas(last.result, f) /\ ObjGet(last.result, f) = parsePrimitive(Get(q, f))
          ELSE /\ ObjHas(last.result, f) = ObjHas(last.defaults, f)
               /\ ObjGet(last.result, f) = ObjGet(last.defaults, f)

C8_Witness ==
  /\ last.op = "read" /\ opts.fields = <<kA>> /\ opts.prefix = kP
  /\ Get(CurrentQuery(opts, location), kPA) = StrV(s1)
  /\ Get(CurrentQuery(opts, location), kA) = StrV(s2)
  /\ ObjGet(last.defaults, kA) = NumV(5, 0)
  /\ ObjGet(last.result, kA) = NumV(1, 0)

\* C9: with a non-empty field list the object readInitialState returns has no key outside
\* the configured fields, whatever the URL and the defaults.
C9_OnlyRequestedFields ==
  (last.op = "read" /\ Len(opts.fields) > 0) =>
    \A i \in 1..Len(last.result) : last.result[i].k \in SeqSet(opts.fields)

\* n is the name under which wildcard mode returns the query key k
Produces(k, n) ==
  IF opts.prefix # <<>> /\ StartsWith(k, opts.prefix) THEN opts.prefix \o n = k ELSE n = k

DefaultsKept ==
  \A i \in 1..Len(last.defaults) :
    (\A j \in 1..Len(After) : ~Produces(After[j].k, last.defaults[i].k))
      => ObjGet(last.result, last.defaults[i].k) = last.defaults[i].v

\* C10 as stated: in wildcard mode readInitialState returns, for every key of the query,
\* an entry holding a decoded value of that key, under the key's name without the prefix
\* when it starts with the non-empty prefix and under its own name otherwise; the other
\* entries of defaults are kept.
C10_EveryKey_AsStated ==
  (last.op = "read" /\ Len(opts.fields) = 0) =>
    /\ DefaultsKept
    /\ \A j \in 1..Len(After) :
         \E i \in 1..Len(last.result) :
           /\ Produces(After[j].k, last.result[i].k)
           /\ \E e \in SeqSet(EntriesOf(After, After[j].k)) :
                last.result[i].v = parsePrimitive(StrV(e.v))

\* C10 amended: in wildcard mode readInitialState returns an entry for every name the
\* keys of the query produce (the key without the prefix when it starts with the non-empty
\* prefix, the key itself otherwise), holding the decoded value of the last entry of the
\* query that produces the name; the other entries of defaults are kept and nothing else
\* is returned.
C10_LastEntryWins ==
  (last.op = "read" /\ Len(opts.fields) = 0) =>
    /\ DefaultsKept
    /\ \A j \in 1..Len(After) :
         (\A l \in (j + 1)..Len(After) :
            \A n \in {last.result[i].k : i \in 1..Len(last.result)} :
              ~(Produces(After[j].k, n) /\ Produces(After[l].k, n)))
         => \E i \in 1..Len(last.result) :
              /\ Produces(After[j].k, last.result[i].k)
              /\ last.result[i].v = parsePrimitive(StrV(After[j].v))
    /\ \A i \in 1..Len(last.result) :
         \/ \E j \in 1..Len(After) : Produces(After[j].k, last.result[i].k)
         \/ ObjHas(last.defaults, last.result[i].k)

C10_Witness ==
  /\ last.op = "read" /\ Len(opts.fields) = 0 /\ opts.prefix = kP
  /\ Get(After, kPA) = StrV(s1)
  /\ Get(After, kA) = StrV(s2)
  /\ Get(After, kK) = StrV(sTrue)
  /\ ObjGet(last.result, kA) = NumV(1, 0)
  /\ ObjGet(last.result, kK) = BoolV(TRUE)
  /\ ObjHas(last.result, <<"z">>)

(***************************************************************************)
(* Properties of the navigation listener (SpecListen).                     *)
(***************************************************************************)
IsEvent(op) == op = "popstate" \/ op = "hashchange"

\* the handlers the last event ran
Invoked == {last.result[i].h : i \in 1..Len(last.result)}

\* C11: once the detach function an attachPopstateListener call returned has been
\* called, the callback of that call is not invoked by any later navigation event:
\* no event runs the handler of a detached call, whatever else was attached, detached
\* or written in between.
C11_DetachedNeverInvoked ==
  IsEvent(last.op) => \A h \in 1..MaxAttach : handlers[h] = "detached" => h \notin Invoked

C11_Witness ==
  /\ last.op = EventType(opts)
  /\ \E h \in 1..MaxAttach : handlers[h] = "detached"
  /\ \E g \in 1..MaxAttach : handlers[g] = "bound" /\ g \in Invoked

\* the calls of handler h the last event made
CallsOf(h) == {i \in 1..Len(last.result) : last.result[i].h = h}

\* what an engine with an allow-list passes on for the query q: an entry for exactly the
\* fields that have a key in q, decoded from the prefixed key, else from the bare key
PassesFields(next, q) ==
  /\ \A j \in 1..Len(opts.fields) :
       LET f == opts.fields[j]
           pv == Get(q, keyOf(opts.prefix, f))
       IN  IF pv # Null THEN ObjGet(next, f) = parsePrimitive(pv)
           ELSE IF Get(q, f) # Null THEN ObjGet(next, f) = parsePrimitive(Get(q, f))
           ELSE ~ObjHas(next, f)
  /\ \A i \in 1..Len(next) : \E j \in 1..Len(opts.fields) : next[i].k = opts.fields[j]

\* C12: while the listener of an attachPopstateListener call is bound (its detach
\* function has not been called and detachPopstate has not removed it), each navigation
\* event of the engine's kind invokes its callback exactly once, with the state that
\* readInitialState() with empty defaults yields for the address as it is at the event:
\* a configured field with no key in the address has no entry in that state.
C12_InvokedOnceWithCurrentState ==
  last.op = EventType(opts) =>
    \A h \in 1..MaxAttach : handlers[h] = "bound" =>
      /\ Cardinality(CallsOf(h)) = 1
      /\ \A i \in CallsOf(h) :
           /\ last.result[i].next = readInitialState(opts, location, <<>>)
           /\ Len(opts.fields) > 0 =>
                PassesFields(last.result[i].next, CurrentQuery(opts, location))

C12_Witness ==
  /\ last.op = EventType(opts)
  /\ Len(opts.fields) > 0
  /\ location # last.loc
  /\ \A h \in 1..MaxAttach : handlers[h] = "bound" /\ Cardinality(CallsOf(h)) = 1
  /\ \E i \in 1..Len(last.result) :
       ObjHas(last.result[i].next, kA) /\ ~ObjHas(last.result[i].next, kK)
  /\ \E j \in 1..Len(opts.fields) : opts.fields[j] = kK

\* C13: after detachPopstate() returns, no subscription made through this engine is
\* active, whatever attachPopstateListener, detach-function and detachPopstate calls came
\* before: no listener of the engine is left on window, and a navigation event that
\* follows invokes no callback.
C13_DetachPopstateRemovesAll ==
  /\ last.op = "detachPopstate" => Len(listeners) = 0
  /\ (IsEvent(last.op) /\ last.prev = "detachPopstate") => Len(last.result) = 0

(***************************************************************************)
(* Properties of the address updates (SpecAddr).                           *)
(***************************************************************************)
PlainWrite == last.op = "serialize" /\ opts.routerType = "browser"

\* the URL a plain-mode write hands to the history call
PlainUrl ==
  LET qs == toString(SerializedQuery(opts, last.loc, last.state))
  IN  last.loc.pathname \o (IF qs = <<>> THEN <<>> ELSE <<"?">> \o qs) \o last.loc.hash

\* C14: in plain mode every serializeStateToUrl call commits one address update by the
\* configured policy: with replaceState true the number of history entries is unchanged,
\* with replaceState false it grows by exactly one, and the address is the URL written;
\* also when the call changes no query key.
C14_OneUpdatePerWrite ==
  PlainWrite =>
    /\ histLen = last.hist + (IF opts.replaceState THEN 0 ELSE 1)
    /\ location.href = PlainUrl

C14_Witness ==
  /\ PlainWrite
  /\ ~opts.replaceState
  /\ location = last.loc
  /\ histLen = last.hist + 1

\* C15: in plain mode a write replaces the query component alone: the path and the
\* fragment of the address are the same after serializeStateToUrl as before, and when the
\* resulting query is empty the address carries no "?" at all (it is the path followed by
\* the fragment).
C15_PathAndFragmentKept ==
  PlainWrite =>
    /\ location.pathname = last.loc.pathname
    /\ location.hash = last.loc.hash
    /\ After = <<>> => location.href = last.loc.pathname \o last.loc.hash

C15_Witness ==
  /\ PlainWrite
  /\ Before # <<>> /\ After = <<>>
  /\ location.hash # <<>> /\ IndexOf(location.hash, "?") >= 0
  /\ location.pathname = <<"/", "d">>

C17_NoWindowNoEffect ==
  ~hasWindow =>
    /\ ~last.threw
    /\ location = Loc(<<>>, <<>>, <<>>) /\ histLen = 1
    /\ timers = {} /\ timer = 0 /\ nextId = 1
    /\ \A i \in 1..MaxSched : calls[i] = NoCall
    /\ listeners = <<>> /\ changeHandler = 0
    /\ \A h \in 1..MaxAttach : handlers[h] \in {"none", "noop"}
    /\ last.op = "read" => last.result = last.defaults

C17_Witness ==
  /\ ~hasWindow
  /\ last.op = "flush" /\ last.state = <<Entry(kA, NumV(1, 0)), Entry(kK, StrV(sX))>>
  /\ \A h \in 1..MaxAttach : handlers[h] = "noop"
  /\ now = MaxTime

(***************************************************************************)
(* The default addressing mode (SpecListen).                               *)
(***************************************************************************)
\* C18: an engine constructed without a routerType option works in browser mode:
\* readInitialState reads location.search, serializeStateToUrl changes location.search
\* (and leaves location.hash alone), and the listener of attachPopstateListener is run by
\* popstate events.
C18_DefaultIsBrowserMode ==
  "routerType" \notin DOMAIN given =>
    /\ last.op = "read" =>
         last.result = readInitialState(ConstructBrowser(given), location, last.defaults)
    /\ last.op = "serialize" =>
         location = serializeStateToUrl(ConstructBrowser(given), last.loc, last.state)
    /\ last.op = "popstate" =>
         \A h \in 1..MaxAttach : handlers[h] = "bound" => h \in Invoked

(***************************************************************************)
(* Two engines on one address (SpecProj).                                  *)
(***************************************************************************)
\* a second engine on the same address: the same fields, the prefix p2
OtherEngine(p2) == [opts EXCEPT !.prefix = p2]

OtherReads(p2, loc) == readInitialState(OtherEngine(p2), loc, <<>>)

\* the prefixes of the second engine
OtherPrefixes == {<<>>, kP, kK}

\* C19 as stated: a serializeStateToUrl call on one allow-list engine leaves unchanged
\* the state readInitialState returns on an engine with the same fields and another
\* prefix, for every state and starting query (here for two prefixes that are not empty).
C19_OtherEngineUndisturbed_AsStated ==
  (last.op = "serialize" /\ Len(opts.fields) > 0 /\ opts.prefix # <<>>) =>
    \A p2 \in OtherPrefixes \ {<<>>, opts.prefix} :
      OtherReads(p2, location) = OtherReads(p2, last.loc)

\* C19 amended: the write leaves unchanged every field the other engine reads from its
\* own prefixed key, when that key is none of the writing engine's keys (a field name, or
\* the writer's prefix + a field name).
C19_PrefixedReadsKept ==
  (last.op = "serialize" /\ Len(opts.fields) > 0) =>
    \A p2 \in OtherPrefixes \ {opts.prefix} :
      \A f \in SeqSet(opts.fields) :
        (Has(Before, keyOf(p2, f)) /\ keyOf(p2, f) \notin KeysOf(opts.fields)) =>
          /\ ObjHas(OtherReads(p2, location), f)
          /\ ObjGet(OtherReads(p2, location), f) = ObjGet(OtherReads(p2, last.loc), f)

C19_Witness ==
  /\ last.op = "serialize" /\ Len(opts.fields) > 0
  /\ After # Before
  /\ \E p2 \in OtherPrefixes \ {opts.prefix} :
       \E f \in SeqSet(opts.fields) :
         /\ Has(Before, keyOf(p2, f)) /\ keyOf(p2, f) \notin KeysOf(opts.fields)
         /\ ObjGet(OtherReads(p2, location), f) = NumV(1, 0)

(***************************************************************************)
(* Decoding of query values (SpecDecode).                                  *)
(***************************************************************************)
Digits(x) == x # <<>> /\ \A i \in 1..Len(x) : x[i] \in {"0", "1", "2", "3", "4", "5", "6", "7", "8", "9"}

Unsigned(s) == IF s # <<>> /\ (s[1] = "+" \/ s[1] = "-") THEN Tail(s) ELSE s

\* the ways to read s as an optional sign, digits and an optional fraction: pairs of
\* the integer digits and the fraction digits
DecimalReadings(s) ==
  LET b == Unsigned(s)
  IN  (IF Digits(b) THEN {<<b, <<>>>>} ELSE {})
      \cup {<<SubSeq(b, 1, d - 1), SubSeq(b, d + 1, Len(b))>> :
              d \in {c \in 1..Len(b) : /\ b[c] = "."
                                       /\ Digits(SubSeq(b, 1, c - 1))
                                       /\ Digits(SubSeq(b, c + 1, Len(b)))}}

RECURSIVE Pow10(_)
Pow10(n) == IF n <= 0 THEN 1 ELSE 10 * Pow10(n - 1)

\* r is the number the reading <<ip, fp>> of s denotes: m * 10^(-e) = +-(ip.fp)
Denotes(r, s, ip, fp) ==
  LET mag == NatOfDigits(ip \o fp)
      val == IF s[1] = "-" THEN -mag ELSE mag
  IN  /\ r.t = "number" /\ r.v[1] = "finite"
      /\ r.v[2] * Pow10(Len(fp) + Len(s)) = val * Pow10(r.v[3] + Len(s))

ParseArg == last.state[1].v
ParseResult == last.result[1].v

\* C20: decoding a query value never fails and follows fixed rules: null (no value)
\* decodes to undefined, 'true' to true, 'false' to false, a text made of an optional
\* sign, digits and an optional decimal fraction to the number it denotes, and every
\* other text, the empty one included, to itself as a string.
C20_DecodingRules ==
  last.op = "parse" =>
    /\ ParseResult.t \in {"undefined", "boolean", "number", "string"}
    /\ ParseArg = Null => ParseResult = Undefined
    /\ ParseArg = StrV(<<"t", "r", "u", "e">>) => ParseResult = BoolV(TRUE)
    /\ ParseArg = StrV(<<"f", "a", "l", "s", "e">>) => ParseResult = BoolV(FALSE)
    /\ (ParseArg.t = "string" /\ ParseArg.v \notin {sTrue, <<"f", "a", "l", "s", "e">>}) =>
         IF DecimalReadings(ParseArg.v) # {}
         THEN \A rd \in DecimalReadings(ParseArg.v) :
                Denotes(ParseResult, ParseArg.v, rd[1], rd[2])
         ELSE ParseResult = ParseArg

C20_Witness ==
  /\ last.op = "parse"
  /\ ParseArg = StrV(<<"-", "1", "0">>)
  /\ ParseResult = NumV(-1, -1)

(***************************************************************************)
(* The binding of the listener and its lifecycle (SpecListen).             *)
(***************************************************************************)
\* the bindings on window that run handler h
BindingsOf(h) == SelectSeq(listeners, LAMBDA l : l.h = h)

ModeEvent == IF opts.routerType = "browser" THEN "popstate" ELSE "hashchange"

\* C21: attachPopstateListener registers exactly one event binding, of the kind of the
\* configured mode (popstate in browser mode, hashchange in hash mode): the callback is
\* invoked on events of that kind and never on events of the other kind, and the detach
\* function removes that binding.
C21_OneBindingOfModeKind ==
  /\ last.op = "attach" => BindingsOf(last.id) = <<[type |-> ModeEvent, h |-> last.id]>>
  /\ last.op = "detach" => BindingsOf(last.id) = <<>>
  /\ \A i \in 1..Len(listeners) : listeners[i].type = ModeEvent
  /\ IsEvent(last.op) =>
       IF last.op = ModeEvent
       THEN \A h \in 1..MaxAttach : handlers[h] = "bound" => h \in Invoked
       ELSE Invoked = {}

C21_Witness ==
  /\ last.op = "popstate" /\ opts.routerType = "hash"
  /\ \E h \in 1..MaxAttach : handlers[h] = "bound" /\ BindingsOf(h) # <<>>
  /\ Invoked = {}

(***************************************************************************)
(* The pending write (Spec).                                               *)
(***************************************************************************)
\* C22: in every reachable state the engine has at most one outstanding scheduled write:
\* at most one live timer exists, this.timer is non-null exactly when it exists and then
\* holds its id, and this.timer is null after a timer expiry, a flush or a cancel.
C22_OnePendingWrite ==
  /\ Cardinality(timers) <= 1
  /\ timer # 0 <=> timers # {}
  /\ \A t \in timers : t.id = timer
  /\ last.op \in {"timer", "flush", "cancel"} => timer = 0

C22_Witness ==
  /\ last.op = "schedule" /\ last.id = 2
  /\ calls[1].end = "schedule"
  /\ timer = 2 /\ Cardinality(timers) = 1

\* the attach calls whose binding nobody has removed
BoundHandlers == {h \in 1..MaxAttach : handlers[h] = "bound"}

\* C23 as stated: in every reachable state at most one event binding created by this
\* engine is registered with the platform.
C23_AtMostOneSubscription_AsStated == Len(listeners) <= 1

\* C23 amended: the engine has one registered binding for each attachPopstateListener
\* call whose detach function has not been called and that detachPopstate has not
\* removed, so at most one as long as no attach is made while a binding is registered; its
\* own record this.changeHandler holds at most one of them, the last one attached.
C23_OneBindingPerLiveAttach ==
  /\ Len(listeners) = Cardinality(BoundHandlers)
  /\ \A h \in BoundHandlers : Len(BindingsOf(h)) = 1
  /\ changeHandler # 0 =>
       /\ changeHandler \in BoundHandlers
       /\ listeners[Len(listeners)].h = changeHandler

C23_Witness ==
  /\ Cardinality(BoundHandlers) = 2
  /\ Len(listeners) = 2
  /\ changeHandler = 2
  /\ last.op = "attach"

\* C24: attachPopstateListener called while a listener is still attached does not replace
\* it: both bindings stay registered, each later navigation event invokes each of the two
\* callbacks once, and the detach function of the first attach removes the first binding
\* alone, the second callback being invoked on.
C24_SecondAttachKeepsFirst ==
  \A g \in 1..MaxAttach : \A h \in (1..MaxAttach) \ {g} :
    /\ (handlers[g] = "bound" /\ handlers[h] = "bound") =>
         /\ BindingsOf(g) # <<>> /\ BindingsOf(h) # <<>>
         /\ last.op = ModeEvent =>
              Cardinality(CallsOf(g)) = 1 /\ Cardinality(CallsOf(h)) = 1
    /\ (handlers[g] = "detached" /\ handlers[h] = "bound") =>
         /\ BindingsOf(g) = <<>> /\ BindingsOf(h) # <<>>
         /\ last.op = ModeEvent => CallsOf(g) = {} /\ Cardinality(CallsOf(h)) = 1

C24_Witness ==
  /\ last.op = ModeEvent
  /\ handlers[1] = "detached" /\ handlers[2] = "bound"
  /\ Invoked = {2}
  /\ changeHandler = 0

\* C25: detaching is idempotent: a call of a detach function whose binding is no longer
\* registered (a second call, or one after detachPopstate removed it) and a call of
\* detachPopstate() with no active listener on record remove no binding and leave the
\* engine's record of its active listener (this.changeHandler) as it was.
C25_DetachIdempotent ==
  [][ /\ (last'.op = "detach" /\ BindingsOf(last'.id) = <<>>) =>
           (listeners' = listeners /\ changeHandler' = changeHandler)
      /\ (last'.op = "detachPopstate" /\ changeHandler = 0) =>
           (listeners' = listeners /\ changeHandler' = changeHandler) ]_vars

(***************************************************************************)
(* Fields the state does not mention, and the order of the fields          *)
(* (SpecProj).                                                             *)
(***************************************************************************)
\* the configured fields that do not occur in the state of the last write
FieldsNotInState == {f \in SeqSet(opts.fields) : ~ObjHas(last.state, f)}

\* C26 as stated: in allow-list mode a configured field that does not occur in the state
\* passed to serializeStateToUrl is left untouched: its prefixed key and its bare key are
\* in the query after the call exactly as they were before it.
C26_AbsentFieldUntouched_AsStated ==
  (last.op = "serialize" /\ Len(opts.fields) > 0) =>
    \A f \in FieldsNotInState :
      /\ EntriesOf(After, keyOf(opts.prefix, f)) = EntriesOf(Before, keyOf(opts.prefix, f))
      /\ EntriesOf(After, f) = EntriesOf(Before, f)

\* C26 amended: in allow-list mode a configured field that does not occur in the state is
\* removed from the address like a field whose value is undefined: neither its prefixed
\* key nor its bare key is in the query after the call (for a field that shares no key
\* with another configured field).
C26_AbsentFieldRemoved ==
  (last.op = "serialize" /\ Len(opts.fields) > 0) =>
    \A f \in FieldsNotInState :
      OwnKeys(f) => ~Has(After, keyOf(opts.prefix, f)) /\ ~Has(After, f)

C26_Witness ==
  /\ last.op = "serialize" /\ Len(opts.fields) > 0
  /\ \E f \in FieldsNotInState :
       /\ OwnKeys(f)
       /\ Has(Before, keyOf(opts.prefix, f)) /\ Has(Before, f)
       /\ ~Has(After, keyOf(opts.prefix, f)) /\ ~Has(After, f)
  /\ last.state # NoState /\ last.state # <<>>

ReverseSeq(s) == [i \in 1..Len(s) |-> s[Len(s) + 1 - i]]

\* the engine that differs from this one only in the order of its fields
Reordered == [opts EXCEPT !.fields = ReverseSeq(opts.fields)]

\* the query the reordered engine writes for the same state on the same starting address
ReorderedQuery == CurrentQuery(opts, serializeStateToUrl(Reordered, last.loc, last.state))

\* the entries of qp whose key the query had before the write, in order
OldKeysOf(qp) == SelectSeq(qp, LAMBDA e : Has(Before, e.k))

\* C29 as stated: the order of the configured field list does not affect the resulting
\* key order: two engines that differ only in the order of their fields write, for the
\* same state on the same starting query, the same query, key for key and in the same
\* order.
C29_FieldOrderIrrelevant_AsStated ==
  (last.op = "serialize" /\ Len(opts.fields) > 1) => ReorderedQuery = After

\* C29 amended: when no two configured fields share a key, the two engines write the same
\* entries, and the keys the starting query already had stay where they were; the keys the
\* write adds are appended in the order of the configured field list.
C29_SameEntriesOldKeysInPlace ==
  (last.op = "serialize" /\ Len(opts.fields) > 1 /\ \A f \in SeqSet(opts.fields) : OwnKeys(f)) =>
    /\ SeqSet(ReorderedQuery) = SeqSet(After)
    /\ Len(ReorderedQuery) = Len(After)
    /\ OldKeysOf(ReorderedQuery) = OldKeysOf(After)
    /\ \A i \in 1..Len(After) : \A j \in (i + 1)..Len(After) :
         (~Has(Before, After[i].k) /\ ~Has(Before, After[j].k)) =>
           \E m \in 1..Len(opts.fields) : \E n \in (m + 1)..Len(opts.fields) :
             /\ After[i].k = keyOf(opts.prefix, opts.fields[m])
             /\ After[j].k = keyOf(opts.prefix, opts.fields[n])

C29_Witness ==
  /\ last.op = "serialize" /\ Len(opts.fields) > 1
  /\ \A f \in SeqSet(opts.fields) : OwnKeys(f)
  /\ ReorderedQuery # After
  /\ OldKeysOf(After) # <<>>
  /\ After # Before

\* the keys of the query qp that the fields fs do not stand for
NonManagedKeys(qp, fs) == {qp[i].k : i \in 1..Len(qp)} \ KeysOf(fs)

\* C27: a timer-driven write applies its snapshot to the query as it is when the timer
\* expires, not as it was when schedule was called: the address after the write is the
\* snapshot serialized onto the address at expiry, every non-managed key of that address
\* is still there with the same entries, and so is the key another writer set between
\* schedule and expiry.
C27_TimerWriteUsesFreshView ==
  last.op = "timer" =>
    /\ location = serializeStateToUrl(opts, last.loc, last.state)
    /\ \A k \in NonManagedKeys(Before, ManagedFields(opts, last.state)) : KeptAsWas(k)
    /\ "other" \in calls[last.id].during =>
         /\ Has(Before, kO)
         /\ EntriesOf(After, kO) = EntriesOf(Before, kO)

C27_Witness ==
  /\ last.op = "timer"
  /\ "other" \in calls[last.id].during
  /\ Get(After, kO) = StrV(s2)
  /\ After # Before
  /\ location # serializeStateToUrl(opts, StartLocation(opts), last.state)

\* the last step was a call of schedule, flush or cancel made from the callback of a
\* navigation listener, or from code that runs when a scheduled write has completed
Reentrant ==
  /\ last.op \in {"schedule", "flush", "cancel"}
  /\ last.prev \in {"callback", "timer"}

\* the schedule calls that a later schedule, a flush or a cancel has ended
Superseded == {i \in 1..MaxSched : calls[i].end \in {"schedule", "flush", "cancel"}}

\* C28: after a call of schedule, flush or cancel made from inside a navigation-listener
\* callback or at the completion of a scheduled write, the engine has at most one pending
\* write; after schedule it is the one that call created, with that call's snapshot, after
\* flush or cancel there is none; and no superseded snapshot is ever written by its timer.
C28_ReentrantCallsKeepOnePending ==
  /\ Reentrant =>
       /\ Cardinality(timers) <= 1
       /\ last.op = "schedule" =>
            /\ timer = last.id
            /\ \E t \in timers : t.id = last.id /\ t.state = last.state
       /\ last.op \in {"flush", "cancel"} => timer = 0 /\ timers = {}
  /\ \A i \in Superseded : calls[i].writes = 0

C28_Witness ==
  /\ Reentrant
  /\ last.op = "schedule"
  /\ last.prev = "callback"
  /\ last.id > 1
  /\ calls[last.id - 1].end = "schedule"
  /\ "nav" \in calls[last.id - 1].during

\* the last step was the write of a timer that was started before a navigation event a
\* listener of the engine received
TimerWriteAfterNavigation == last.op = "timer" /\ "nav" \in calls[last.id].during

\* C30 as stated: once a navigation event has been delivered to the engine's listener,
\* a timer that was started before that event does not change the managed keys of the
\* address: they are after its write as the navigation left them.
C30_NavigationProtectsAddress_AsStated ==
  TimerWriteAfterNavigation =>
    \A k \in KeysOf(ManagedFields(opts, last.state)) : EntriesOf(After, k) = EntriesOf(Before, k)

\* C30 amended: a navigation event does not end a pending write. The timer started before
\* the event still writes at expiry: it applies its snapshot to the address the navigation
\* arrived at, so the managed keys show the snapshot and the other keys of that address
\* are kept. The write is not made only when a schedule, flush or cancel after the event
\* ended the pending write first.
C30_PendingWriteSurvivesNavigation ==
  /\ TimerWriteAfterNavigation =>
       /\ location = serializeStateToUrl(opts, last.loc, last.state)
       /\ Reflects(location, last.state)
       /\ OthersKept(last.loc, location, last.state)
  /\ \A i \in Superseded : "nav" \in calls[i].during => calls[i].writes = 0

C30_Witness ==
  /\ TimerWriteAfterNavigation
  /\ Get(Before, kA) = StrV(s2)
  /\ Get(After, kA) # Get(Before, kA)
  /\ Has(After, kPA)

\* the entries of the query qp under the keys of the field f: prefix+f and f
OwnEntries(qp, f) == SelectSeq(qp, LAMBDA e : e.k \in KeysOf(<<f>>))

\* C31: in allow-list mode the configured fields are handled independently inside one
\* serializeStateToUrl call and one readInitialState call, for every prefix and field
\* list, lists where prefix+f is another configured field included: after the write the
\* key prefix+f of every field with a present value holds that value's string form, and
\* the value read for a field is the one its own keys alone give.
C31_FieldsIndependent ==
  /\ (last.op = "serialize" /\ Len(opts.fields) > 0) =>
       \A f \in SeqSet(opts.fields) :
         LET v == StateValue(last.state, f)
         IN  Present(v) => Get(After, keyOf(opts.prefix, f)) = StrV(JsString(v))
  /\ (last.op = "read" /\ Len(opts.fields) > 0) =>
       \A f \in SeqSet(opts.fields) :
         LET alone == ReadFields(OwnEntries(CurrentQuery(opts, location), f), opts.prefix,
                                 <<f>>, last.defaults)
         IN  /\ ObjHas(last.result, f) = ObjHas(alone, f)
             /\ ObjGet(last.result, f) = ObjGet(alone, f)

\* the names k for which the query qp holds both prefix+k and the bare key k, k not being
\* a prefixed key itself
BothKeys(qp) ==
  {qp[i].k : i \in 1..Len(qp)} \cap
    {k \in {qp[i].k : i \in 1..Len(qp)} : ~StartsWith(k, opts.prefix) /\ Has(qp, keyOf(opts.prefix, k))}

\* what an allow-list engine with the one field k returns for k
AllowListValue(k) ==
  ObjGet(readInitialState([opts EXCEPT !.fields = <<k>>], location, last.defaults), k)

\* C32 as stated: when the query holds both prefix+k and k, wildcard-mode readInitialState
\* returns for k the decoded value of prefix+k, whatever the order of the two keys in the
\* query, which is the value an allow-list engine with field k returns.
C32_PrefixedWinsInWildcard_AsStated ==
  (last.op = "read" /\ opts.fields = <<>> /\ opts.prefix # <<>>) =>
    \A k \in BothKeys(CurrentQuery(opts, location)) :
      /\ ObjGet(last.result, k) = parsePrimitive(Get(CurrentQuery(opts, location), keyOf(opts.prefix, k)))
      /\ ObjGet(last.result, k) = AllowListValue(k)

\* C32 amended: in wildcard mode the order of the keys decides: when the query holds
\* both prefix+k and k, readInitialState returns for k the decoded value of the last entry
\* of the query under either key. It is the value of prefix+k, the one an allow-list
\* engine with field k returns, when the single entry prefix+k comes after the entries k.
C32_LastOfBothKeysWins ==
  (last.op = "read" /\ opts.fields = <<>> /\ opts.prefix # <<>>) =>
    \A k \in BothKeys(CurrentQuery(opts, location)) :
      LET q == CurrentQuery(opts, location)
          own == OwnEntries(q, k)
          final == own[Len(own)]
      IN  /\ ObjGet(last.result, k) = parsePrimitive(StrV(final.v))
          /\ (final.k = keyOf(opts.prefix, k) /\ Len(EntriesOf(q, final.k)) = 1) =>
               ObjGet(last.result, k) = AllowListValue(k)

C32_Witness ==
  /\ last.op = "read" /\ opts.fields = <<>> /\ opts.prefix = kP
  /\ CurrentQuery(opts, location) = <<Entry(kPA, s1), Entry(kA, s2)>>
  /\ ObjGet(last.result, kA) = NumV(2, 0)
  /\ AllowListValue(kA) = NumV(1, 0)

\* a step that is a readInitialState call
ReadStep == last'.op = "read" /\ last' # last

\* C33: readInitialState has no effect on anything but its result: a call changes neither
\* the address nor the history, it leaves the pending write and its timer as they were
\* (none created, cancelled or fired), it attaches and detaches no listener, and it
\* returns an object other than the defaults object, which holds after the call what it
\* held before.
C33_ReadHasNoEffect ==
  [][ReadStep =>
       /\ UNCHANGED <<location, histLen>>
       /\ UNCHANGED <<timer, timers, nextId, calls>>
       /\ UNCHANGED <<changeHandler, listeners, handlers>>
       /\ last'.ref # DefaultsRef
       /\ inputs.defaults = {last'.defaults}]_vars

C33_Witness ==
  /\ last.op = "read"
  /\ timers # {}
  /\ listeners # <<>>
  /\ last.ref # DefaultsRef
  /\ last.result # last.defaults
  /\ ObjGet(last.result, kA) = StrV(sX)
  /\ ObjGet(last.defaults, kA) = NumV(5, 0)

\* C34: a pending write holds a snapshot: the values written when the timer expires are
\* the values the state object had when schedule was called, also when the caller has
\* changed that object between the schedule call and the expiry.
C34_WritesScheduledValues ==
  last.op = "timer" =>
    /\ last.state = calls[last.id].state
    /\ location = serializeStateToUrl(opts, last.loc, calls[last.id].state)

====
